---- MODULE Spec2Model ----
(***************************************************************************)
(* Model of the MediSupply video processor backend.                        *)
(*                                                                         *)
(* VideoProcessorService.process_video_by_visit_client_id is modelled as   *)
(* a sequence of steps, one action per statement that calls a collaborator *)
(* (the SQLAlchemy session, CloudStorageService, tempfile/os, moviepy),    *)
(* each collaborator call drawing its outcome from the outcomes the        *)
(* collaborator can produce.  Text values (file names, URLs, messages) are *)
(* sequences of tokens; Python's None is the one-token sequence None.      *)
(***************************************************************************)
EXTENDS Integers, Sequences, FiniteSets, TLC

(***************************************************************************)
(* Bounds of the model.                                                    *)
(***************************************************************************)
\* number of process_video_by_visit_client_id calls in one behaviour
MaxRuns == 2

\* the create calls followed
MaxCreates == 3

\* the primary keys of scheduled_visit_clients the model follows
Ids == {1, 2}

\* the workers that may run the pipeline (one controller instance each)
Workers == {"w1", "w2"}
\* the sequential specification drives a single worker
SeqWorkers == {"w1"}

(***************************************************************************)
(* Text values.                                                            *)
(***************************************************************************)
None == <<"<None>">>
Empty == <<>>

\* Python truthiness of an Optional[str]:  `not v`
Falsy(v) == v = None \/ v = Empty

\* "_processed.mp4"
ProcessedSuffix == <<"_", "p", "r", "o", "c", "e", "s", "s", "e", "d", ".", "m", "p", "4">>

\* "Procesado"
Procesado == <<"Procesado">>

RECURSIVE RFind(_, _, _)
\* str.rfind(ch) over p[1..n]: the last index of ch, 0 when absent
RFind(p, ch, n) ==
    IF n = 0 THEN 0
    ELSE IF p[n] = ch THEN n
    ELSE RFind(p, ch, n - 1)

\* genericpath._splitext without its skip of leading dots: the last dot of the
\* final path segment, wherever it stands
LastDot(p) ==
    LET sepIndex == RFind(p, "/", Len(p))
        dotIndex == RFind(p, ".", Len(p))
    IN  IF dotIndex > sepIndex THEN dotIndex ELSE 0

\* genericpath._splitext: a dot is an extension separator only when it comes
\* after the last "/" and some character between that "/" and the dot is not
\* itself a dot (leading dots of the final segment are skipped)
SplitextDot(p) ==
    LET sepIndex == RFind(p, "/", Len(p))
        dotIndex == RFind(p, ".", Len(p))
    IN  IF /\ dotIndex > sepIndex
           /\ \E i \in (sepIndex + 1)..(dotIndex - 1) : p[i] # "."
        THEN dotIndex
        ELSE 0

\* os.path.splitext(p)[0]
SplitextRoot(p) ==
    IF SplitextDot(p) = 0 THEN p ELSE SubSeq(p, 1, SplitextDot(p) - 1)

\* os.path.splitext(p)[1]
SplitextExt(p) ==
    IF SplitextDot(p) = 0 THEN Empty ELSE SubSeq(p, SplitextDot(p), Len(p))

\* _generate_processed_filename leaving alone a name that already ends
\* with the suffix
SuffixUnlessProcessed(original_filename) ==
    LET n == Len(original_filename)
        k == Len(ProcessedSuffix)
    IN  IF n >= k /\ SubSeq(original_filename, n - k + 1, n) = ProcessedSuffix
        THEN original_filename
        ELSE SplitextRoot(original_filename) \o ProcessedSuffix

\* _generate_processed_filename with the splitext of line 223 forgotten
AppendSuffixOnly(original_filename) == original_filename \o ProcessedSuffix

\* VideoProcessorService._generate_processed_filename
GenerateProcessedFilename(original_filename) ==
    SplitextRoot(original_filename) \o ProcessedSuffix

(***************************************************************************)
(* Messages.  An error is the chain of the messages it was wrapped in,     *)
(* outermost first:  f"{prefix}: {str(e)}"  is  <<prefix>> \o e.           *)
(***************************************************************************)
ProcessErrorPrefix == "Error al procesar video"
NotFoundMsg == "No se encontro registro de cliente en visita con ID"
NoVideoMsg == "El registro no tiene un video asociado"
DownloadErrorPrefix == "Error al descargar video desde Cloud Storage"
ComposeErrorPrefix == "Error al procesar video"
LogoMissingMsg == "Logo no encontrado en"
UploadFailedPrefix == "Error al subir video"
UploadErrorPrefix == "Error al subir video procesado"
RecordGoneMsg == "Registro no encontrado"
PersistErrorPrefix == "Error al actualizar registro"

\* f"{prefix}: {str(e)}"
Wrap(prefix, e) == <<prefix>> \o e

NoError == <<>>

(***************************************************************************)
(* Rows of scheduled_visit_clients (the columns the pipeline reads or      *)
(* writes).  present = FALSE is the absence of the row.                    *)
(***************************************************************************)
AbsentRow ==
    [present |-> FALSE, id |-> 0, visit_id |-> None, client_id |-> None,
     filename |-> None, filename_url |-> None,
     file_status |-> None, filename_processed |-> None,
     filename_url_processed |-> None, updated_at |-> 0]

NewRow(fn, url) ==
    [present |-> TRUE, id |-> 0, visit_id |-> <<"visit">>,
     client_id |-> <<"client">>, filename |-> fn, filename_url |-> url,
     file_status |-> None, filename_processed |-> None,
     filename_url_processed |-> None, updated_at |-> 0]

\* db_models.py line 26: the autoincremented primary key the insert gave
\* the row
Inserted(row, i) == IF row.present THEN [row EXCEPT !.id = i] ELSE row

\* file names an upstream upload may have stored in a row: a name and one
\* extension ...
PlainName == <<"a", ".", "b">>

\* ... a directory and two dots, a leading dot, a dot in the directory only
SampleNames ==
    { <<"d", "/", "a", ".", "b", ".", "c">>,
      <<".", "a">>,
      <<"d", ".", "e", "/", "a">> }

SampleUrl == <<"https://x/", "video">>

\* the rows a table may hold before the pipeline runs
InitRows ==
    { NewRow(fn, SampleUrl) : fn \in SampleNames }
        \cup { NewRow(None, None), NewRow(Empty, SampleUrl),
               NewRow(PlainName, None), NewRow(PlainName, Empty) }

(***************************************************************************)
(* CloudStorageService.upload_file, as a function of what the bucket does. *)
(***************************************************************************)
BUCKET_FOLDER == "sales-plan"

\* full_path = f"{target_folder}/{filename}"
FullPath(folder, filename) == <<folder, "/">> \o filename

\* settings.py line 28
MAX_CONTENT_LENGTH == 500 * 1024 * 1024

\* folder=None
NoFolder == "<None>"

\* line 186: folder if folder is not None else self.config.BUCKET_FOLDER
TargetFolder(folder) == IF folder = NoFolder THEN BUCKET_FOLDER ELSE folder

\* what the bucket can do with one upload: upload_from_file raises a
\* GoogleCloudError or something else, or writes the blob and then
\* get_file_url signs the URL, finds no blob, or falls back to the public URL
UploadHows == {"gcs_error", "error", "signed", "no_blob", "unsigned"}

\* CloudStorageService.get_file_url: "" when the blob is not found, the signed
\* URL, or the public URL pattern when signing raises
GetFileUrl(filename, folder, how) ==
    CASE how = "no_blob"  -> Empty
      [] how = "signed"   -> <<"signed:">> \o FullPath(folder, filename)
      [] how = "unsigned" -> <<"https://storage.googleapis.com/", "bucket", "/">>
                                 \o FullPath(folder, filename)

\* the FileStorage handed to upload_file: none, or one with a filename and
\* a stream of some size
NoFile == [given |-> FALSE, filename |-> None, size |-> 0]
FileStorage(filename, size) == [given |-> TRUE, filename |-> filename, size |-> size]

\* the sizes a stream may have, around the limit
FileSizes == {1, MAX_CONTENT_LENGTH, MAX_CONTENT_LENGTH + 1}

\* how a block of code ends: it returns (success, message, signed_url), or
\* it raises; stored tells whether the blob was written on the way
Returns(success, message, url, stored) ==
    [raised |-> FALSE, exc |-> "", success |-> success, message |-> message,
     url |-> url, stored |-> stored]
Raises(exc, stored) ==
    [raised |-> TRUE, exc |-> exc, success |-> FALSE, message |-> <<>>,
     url |-> None, stored |-> stored]

\* lines 173-231: the try block of upload_file
UploadBody(file, filename, folder, how) ==
    IF ~file.given \/ Falsy(file.filename)
    THEN Returns(FALSE, <<"No se proporciono archivo">>, None, FALSE)
    ELSE IF file.size > MAX_CONTENT_LENGTH
    THEN Returns(FALSE, <<"El archivo excede el tamano maximo permitido">>,
                 None, FALSE)
    ELSE IF how = "gcs_error" THEN Raises("GoogleCloudError", FALSE)
    ELSE IF how = "error" THEN Raises("Exception", FALSE)
    ELSE Returns(TRUE, <<"Archivo subido exitosamente">>,
                 GetFileUrl(filename, TargetFolder(folder), how), TRUE)

\* upload_file without its except clauses
UploadFileUncaught(file, filename, folder, how) ==
    UploadBody(file, filename, folder, how)

\* lines 172-236: upload_file, the try block and its two except clauses
UploadFile(file, filename, folder, how) ==
    LET body == UploadBody(file, filename, folder, how) IN
    IF ~body.raised THEN body
    ELSE IF body.exc = "GoogleCloudError"
    THEN Returns(FALSE, <<"Error de Google Cloud Storage", "gcs error">>,
                 None, body.stored)
    ELSE Returns(FALSE, <<"Error al subir archivo", "error">>, None, body.stored)

(***************************************************************************)
(* State.                                                                  *)
(***************************************************************************)
VARIABLES
    db,                   \* scheduled_visit_clients: Ids -> row (committed)
    blobs,                \* paths of the blobs written to the bucket
    disk,                 \* temporary files that exist on disk
    logo,                 \* os.path.exists(self.logo_path)
    runs,                 \* process calls started so far; also the clock
    pc,                   \* per worker: the statement it is at
    visit_client_id,      \* per worker: the argument of the call
    db_client,            \* per worker: the row object loaded by the lookup
    video_content,        \* per worker: TRUE once the download returned bytes
    pvl_video,            \* per worker: temp_video_path inside _process_video_with_logo
    pvl_processed,        \* per worker: temp_processed_path inside _process_video_with_logo
    temp_video_path,      \* per worker: temp_video_path of process (0 is None)
    temp_processed_path,  \* per worker: temp_processed_path of process (0 is None)
    processed_filename,   \* per worker
    processed_url,        \* per worker
    dirty,                \* per worker: the session's uncommitted attribute writes
    error,                \* per worker: the exception being propagated
    result,               \* per worker: the dict process returns
    log,                  \* per worker: collaborator calls of this run, in order
    created,              \* per worker: temporary files this run created
    cleanups,             \* per worker: _cleanup_temp_files calls of this run
    rollbacks,            \* per worker: session.rollback calls of this run
    pre,                  \* per worker: db as it was when the run started
    prior,                \* per worker: the stage its previous call failed at,
                          \*   when that call was for the same id
    removals,             \* per worker: the paths os.remove was called on
    uploaded_by,          \* per blob path: the worker whose output the blob holds
    request,              \* per worker: the request its controller is handling
    response,             \* per worker: the response its controller gave
    invocations,          \* per worker: the arguments its controller called
                          \*   process_video_by_visit_client_id with
    upload_ret,           \* what the last direct call of upload_file returned
    scheduled_visits,     \* the committed rows of scheduled_visits
    creating,             \* per worker: the ScheduledVisitRepository.create call
                          \*   it is in
    creates               \* create calls started so far

shared == <<db, blobs, uploaded_by, disk, logo, runs>>
locals == <<pc, visit_client_id, db_client, video_content, pvl_video,
            pvl_processed, temp_video_path, temp_processed_path,
            processed_filename, processed_url, dirty, error, result, log,
            created, cleanups, rollbacks, pre, prior, removals>>
\* the state of the controller's request handling
http == <<request, response, invocations>>
\* the state of the collaborators when they are called from outside process
outside == <<upload_ret, scheduled_visits, creating, creates>>
others == <<http, outside>>
vars == <<shared, locals, others>>

NoResult ==
    [visit_client_id |-> 0, original_filename |-> None,
     processed_filename |-> None, processed_url |-> None, status |-> None]

\* no request taken, no response given, no call made yet
NoRequest == [shape |-> "none", id |-> [t |-> "null", n |-> 0, s |-> <<>>]]
NoResponse ==
    [status |-> 0, success |-> FALSE, message |-> <<>>, data |-> NoResult]
NoReturn ==
    [called |-> FALSE, file |-> NoFile, filename |-> None, folder |-> NoFolder,
     before |-> {}, ret |-> Returns(FALSE, <<>>, None, FALSE)]
NoVisit == [id |-> 0, seller_id |-> "", date |-> ""]
NoCreate == [at |-> "idle", visit |-> NoVisit, outcome |-> "none"]

NoDirty == [pending |-> FALSE, id |-> 0, filename_processed |-> None,
            filename_url_processed |-> None, file_status |-> None,
            updated_at |-> 0]

\* one collaborator call: what was called, how it ended ("ok", "none",
\* "false", "raise") and the text it returned (None when it returns no text)
Entry(op, res, val) == [op |-> op, res |-> res, val |-> val]

\* the state before the first call, record 1 being one of rows and every
\* other record a row with the plain name
InitWith(rows) ==
    /\ \E first \in rows :
        db = [i \in Ids |->
                Inserted(IF i = 1 THEN first ELSE NewRow(PlainName, SampleUrl), i)]
    /\ blobs = {}
    /\ uploaded_by = <<>>
    /\ disk = {}
    /\ logo \in BOOLEAN
    /\ runs = 0
    /\ pc = [w \in Workers |-> "idle"]
    /\ visit_client_id = [w \in Workers |-> 0]
    /\ db_client = [w \in Workers |-> AbsentRow]
    /\ video_content = [w \in Workers |-> FALSE]
    /\ pvl_video = [w \in Workers |-> 0]
    /\ pvl_processed = [w \in Workers |-> 0]
    /\ temp_video_path = [w \in Workers |-> 0]
    /\ temp_processed_path = [w \in Workers |-> 0]
    /\ processed_filename = [w \in Workers |-> None]
    /\ processed_url = [w \in Workers |-> None]
    /\ dirty = [w \in Workers |-> NoDirty]
    /\ error = [w \in Workers |-> NoError]
    /\ result = [w \in Workers |-> NoResult]
    /\ log = [w \in Workers |-> <<>>]
    /\ created = [w \in Workers |-> {}]
    /\ cleanups = [w \in Workers |-> 0]
    /\ rollbacks = [w \in Workers |-> 0]
    /\ pre = [w \in Workers |-> [i \in Ids |-> AbsentRow]]
    /\ prior = [w \in Workers |-> "none"]
    /\ removals = [w \in Workers |-> {}]
    /\ request = [w \in Workers |-> NoRequest]
    /\ response = [w \in Workers |-> NoResponse]
    /\ invocations = [w \in Workers |-> <<>>]
    /\ upload_ret = NoReturn
    /\ scheduled_visits = {}
    /\ creating = [w \in Workers |-> NoCreate]
    /\ creates = 0

Init == InitWith(InitRows \cup {AbsentRow})

\* raise e inside the try block of process: control goes to the except clause
Raise(w, e) ==
    /\ error' = [error EXCEPT ![w] = e]
    /\ pc' = [pc EXCEPT ![w] = "except"]

Logged(w, op, res, val) ==
    log' = [log EXCEPT ![w] = Append(@, Entry(op, res, val))]

(***************************************************************************)
(* process_video_by_visit_client_id, statement by statement.               *)
(***************************************************************************)
\* the stage at which the last call of w raised ("none" when it returned or
\* never ran), read off the collaborator calls it made: the call that did
\* not end well, or the statement that raises between two calls
FailedStage(w) ==
    LET n == Len(log[w]) IN
    IF error[w] = NoError THEN "none"
    ELSE IF n > 0 /\ log[w][n].res # "ok"
    THEN CASE log[w][n].op = "lookup" /\ log[w][n].res = "none" -> "notfound"
           [] log[w][n].op \in {"refetch", "commit"} -> "persist"
           [] OTHER -> log[w][n].op
    ELSE CASE n = 1 -> "validate"
           [] n = 3 -> "upload"
           [] OTHER -> "reload"

\* the stages that fail when a collaborator does (the others fail on what the
\* row holds, or after the commit)
CollaboratorStages == {"lookup", "download", "compose", "upload", "persist"}

\* lines 45-49: a call begins, on the controller and the session the route
\* handler made for this request (a new session has no pending writes)
Start(w, id) ==
    /\ pc[w] = "idle"
    /\ runs < MaxRuns
    /\ runs' = runs + 1
    /\ pc' = [pc EXCEPT ![w] = "lookup"]
    /\ visit_client_id' = [visit_client_id EXCEPT ![w] = id]
    /\ db_client' = [db_client EXCEPT ![w] = AbsentRow]
    /\ video_content' = [video_content EXCEPT ![w] = FALSE]
    /\ pvl_video' = [pvl_video EXCEPT ![w] = 0]
    /\ pvl_processed' = [pvl_processed EXCEPT ![w] = 0]
    /\ temp_video_path' = [temp_video_path EXCEPT ![w] = 0]
    /\ temp_processed_path' = [temp_processed_path EXCEPT ![w] = 0]
    /\ processed_filename' = [processed_filename EXCEPT ![w] = None]
    /\ processed_url' = [processed_url EXCEPT ![w] = None]
    /\ error' = [error EXCEPT ![w] = NoError]
    /\ result' = [result EXCEPT ![w] = NoResult]
    /\ log' = [log EXCEPT ![w] = <<>>]
    /\ created' = [created EXCEPT ![w] = {}]
    /\ cleanups' = [cleanups EXCEPT ![w] = 0]
    /\ rollbacks' = [rollbacks EXCEPT ![w] = 0]
    /\ pre' = [pre EXCEPT ![w] = db]
    /\ prior' = [prior EXCEPT ![w] =
           IF visit_client_id[w] = id /\ FailedStage(w) \in CollaboratorStages
           THEN FailedStage(w) ELSE "none"]
    /\ removals' = [removals EXCEPT ![w] = {}]
    /\ dirty' = [dirty EXCEPT ![w] = NoDirty]
    /\ UNCHANGED <<db, blobs, uploaded_by, disk, logo, outside>>

\* the check of line 53 left out
NeverNotFound(row) == FALSE

\* line 53: if not db_client
NotFound(row) == ~row.present

\* lines 118-120: the row the query for id finds (no row has an id outside
\* Ids)
Stored(id) == IF id \in Ids THEN db[id] ELSE AbsentRow

\* lines 52-54 and _get_visit_client_by_id: the query raises, finds no row,
\* or loads the row
Lookup(w) ==
    /\ pc[w] = "lookup"
    /\ \E fails \in BOOLEAN :
        IF fails
        THEN /\ Logged(w, "lookup", "raise", None)
             /\ Raise(w, <<"db error">>)
             /\ UNCHANGED db_client
        ELSE IF NotFound(Stored(visit_client_id[w]))
        THEN /\ Logged(w, "lookup",
                       IF Stored(visit_client_id[w]).present THEN "ok" ELSE "none", None)
             /\ Raise(w, <<NotFoundMsg>>)
             /\ UNCHANGED db_client
        ELSE /\ Logged(w, "lookup",
                       IF Stored(visit_client_id[w]).present THEN "ok" ELSE "none", None)
             /\ db_client' = [db_client EXCEPT ![w] = Stored(visit_client_id[w])]
             /\ pc' = [pc EXCEPT ![w] = "validate"]
             /\ UNCHANGED error
    /\ UNCHANGED <<shared, visit_client_id, video_content, pvl_video,
                   pvl_processed, temp_video_path, temp_processed_path,
                   processed_filename, processed_url, dirty, result, created,
                   cleanups, rollbacks, pre, prior, removals, others>>

\* the check of line 57 with the filename_url half forgotten
MissingFilenameOnly(row) == Falsy(row.filename)

\* line 57: not db_client.filename or not db_client.filename_url
MissingVideo(row) == Falsy(row.filename) \/ Falsy(row.filename_url)

\* lines 56-58
Validate(w) ==
    /\ pc[w] = "validate"
    /\ IF MissingVideo(db_client[w])
       THEN Raise(w, <<NoVideoMsg>>)
       ELSE /\ pc' = [pc EXCEPT ![w] = "download"]
            /\ UNCHANGED error
    /\ UNCHANGED <<shared, visit_client_id, db_client, video_content,
                   pvl_video, pvl_processed, temp_video_path,
                   temp_processed_path, processed_filename, processed_url,
                   dirty, result, log, created, cleanups, rollbacks, pre, prior, removals, others>>

\* the except clause of lines 145-146 raising the cause as it came
Unwrapped(e) == e

\* lines 145-146
DownloadError(e) == Wrap(DownloadErrorPrefix, e)

\* line 63 and _download_video_from_storage: download_file raises (the blob
\* is missing, the bucket fails), the read of config.BUCKET_FOLDER_VIDEOS
\* raises (settings.Config defines no such attribute), or the bytes come back
Download(w) ==
    /\ pc[w] = "download"
    /\ \E fails \in BOOLEAN :
        IF fails
        THEN /\ Logged(w, "download", "raise", None)
             /\ Raise(w, DownloadError(<<"gcs error">>))
             /\ UNCHANGED video_content
        ELSE /\ Logged(w, "download", "ok", None)
             /\ video_content' = [video_content EXCEPT ![w] = TRUE]
             /\ pc' = [pc EXCEPT ![w] = "stage"]
             /\ UNCHANGED error
    /\ UNCHANGED <<shared, visit_client_id, db_client, pvl_video,
                   pvl_processed, temp_video_path, temp_processed_path,
                   processed_filename, processed_url, dirty, result, created,
                   cleanups, rollbacks, pre, prior, removals, others>>

(***************************************************************************)
(* _process_video_with_logo.  Every exception raised inside it is wrapped  *)
(* by line 210 and leaves the function without returning the paths.        *)
(***************************************************************************)
\* lines 209-210
ComposeError(e) == Wrap(ComposeErrorPrefix, e)

ComposeRaise(w, e) ==
    /\ Logged(w, "compose", "raise", None)
    /\ Raise(w, ComposeError(e))

\* one fixed path in place of the name tempfile picks
PredictableTemp == CHOOSE f \in {1} : TRUE

\* the name tempfile.NamedTemporaryFile picks: one no existing file has (the
\* names are numbered and the first free one stands for any free one)
FreshTemp ==
    CHOOSE f \in 1..(Cardinality(disk) + 1) :
        f \notin disk /\ \A g \in 1..(f - 1) : g \in disk

\* tempfile.NamedTemporaryFile(delete=False)
NewTemp(w) ==
    /\ disk' = disk \cup {FreshTemp}
    /\ created' = [created EXCEPT ![w] = @ \cup {FreshTemp}]

\* lines 163-165: create the staging file and write the bytes into it
StageVideo(w) ==
    /\ pc[w] = "stage"
    /\ \E how \in {"ok", "no_file", "write_fails"} :
        CASE how = "no_file" ->
                /\ ComposeRaise(w, <<"io error">>)
                /\ UNCHANGED <<disk, created, pvl_video>>
          [] how = "write_fails" ->
                /\ NewTemp(w)
                /\ ComposeRaise(w, <<"io error">>)
                /\ UNCHANGED pvl_video
          [] how = "ok" ->
                /\ NewTemp(w)
                /\ pvl_video' = [pvl_video EXCEPT ![w] = FreshTemp]
                /\ pc' = [pc EXCEPT ![w] = "open"]
                /\ UNCHANGED <<error, log>>
    /\ UNCHANGED <<db, blobs, uploaded_by, logo, runs, visit_client_id, db_client,
                   video_content, pvl_processed, temp_video_path,
                   temp_processed_path, processed_filename, processed_url,
                   dirty, result, cleanups, rollbacks, pre, prior, removals, others>>

\* line 168: VideoFileClip(temp_video_path) decodes the staged video
OpenVideo(w) ==
    /\ pc[w] = "open"
    /\ \E fails \in BOOLEAN :
        IF fails
        THEN ComposeRaise(w, <<"decode error">>)
        ELSE /\ pc' = [pc EXCEPT ![w] = "logo"]
             /\ UNCHANGED <<error, log>>
    /\ UNCHANGED <<shared, visit_client_id, db_client, video_content,
                   pvl_video, pvl_processed, temp_video_path,
                   temp_processed_path, processed_filename, processed_url,
                   dirty, result, created, cleanups, rollbacks, pre, prior, removals, others>>

\* lines 171-185: the logo must exist; build, resize and concatenate the clips
BrandVideo(w) ==
    /\ pc[w] = "logo"
    /\ IF ~logo
       THEN ComposeRaise(w, <<LogoMissingMsg>>)
       ELSE \E fails \in BOOLEAN :
            IF fails
            THEN ComposeRaise(w, <<"image error">>)
            ELSE /\ pc' = [pc EXCEPT ![w] = "mkout"]
                 /\ UNCHANGED <<error, log>>
    /\ UNCHANGED <<shared, visit_client_id, db_client, video_content,
                   pvl_video, pvl_processed, temp_video_path,
                   temp_processed_path, processed_filename, processed_url,
                   dirty, result, created, cleanups, rollbacks, pre, prior, removals, others>>

\* lines 188-189: create the output file
CreateOutput(w) ==
    /\ pc[w] = "mkout"
    /\ \E fails \in BOOLEAN :
        IF fails
        THEN /\ ComposeRaise(w, <<"io error">>)
             /\ UNCHANGED <<disk, created, pvl_processed>>
        ELSE /\ NewTemp(w)
             /\ pvl_processed' = [pvl_processed EXCEPT ![w] = FreshTemp]
             /\ pc' = [pc EXCEPT ![w] = "encode"]
             /\ UNCHANGED <<error, log>>
    /\ UNCHANGED <<db, blobs, uploaded_by, logo, runs, visit_client_id, db_client,
                   video_content, pvl_video, temp_video_path,
                   temp_processed_path, processed_filename, processed_url,
                   dirty, result, cleanups, rollbacks, pre, prior, removals, others>>

\* lines 192-207 and the assignment of line 66: encode, close the clips and
\* return both paths to process
EncodeVideo(w) ==
    /\ pc[w] = "encode"
    /\ \E fails \in BOOLEAN :
        IF fails
        THEN /\ ComposeRaise(w, <<"encode error">>)
             /\ UNCHANGED <<temp_video_path, temp_processed_path>>
        ELSE /\ Logged(w, "compose", "ok", None)
             /\ temp_video_path' = [temp_video_path EXCEPT ![w] = pvl_video[w]]
             /\ temp_processed_path' =
                    [temp_processed_path EXCEPT ![w] = pvl_processed[w]]
             /\ pc' = [pc EXCEPT ![w] = "naming"]
             /\ UNCHANGED error
    /\ UNCHANGED <<shared, visit_client_id, db_client, video_content,
                   pvl_video, pvl_processed, processed_filename,
                   processed_url, dirty, result, created, cleanups,
                   rollbacks, pre, prior, removals, others>>

\* line 72
Naming(w) ==
    /\ pc[w] = "naming"
    /\ processed_filename' =
           [processed_filename EXCEPT
               ![w] = GenerateProcessedFilename(db_client[w].filename)]
    /\ pc' = [pc EXCEPT ![w] = "upload"]
    /\ UNCHANGED <<shared, visit_client_id, db_client, video_content,
                   pvl_video, pvl_processed, temp_video_path,
                   temp_processed_path, processed_url, dirty, error, result,
                   log, created, cleanups, rollbacks, pre, prior, removals, others>>

\* the check of line 259 left out
UploadNeverFailed(ret) == FALSE

\* line 259: if not success
UploadFailed(ret) == ~ret.success

\* lines 265-266
UploadError(e) == Wrap(UploadErrorPrefix, e)

\* line 75 and _upload_processed_video: open the output file, hand it to
\* upload_file, check the success flag
Upload(w) ==
    /\ pc[w] = "upload"
    /\ \E how \in UploadHows \cup {"open_fails"}, size \in FileSizes :
        IF how = "open_fails"
        THEN /\ Raise(w, UploadError(<<"io error">>))
             /\ UNCHANGED <<blobs, uploaded_by, log, processed_url>>
        ELSE LET ret == UploadFile(FileStorage(processed_filename[w], size),
                                   processed_filename[w], NoFolder, how)
                 path == FullPath(TargetFolder(NoFolder), processed_filename[w])
             IN
             /\ blobs' = IF ret.stored THEN blobs \cup {path} ELSE blobs
             /\ uploaded_by' =
                    IF ret.stored
                    THEN [p \in blobs \cup {path} |->
                            IF p = path THEN w ELSE uploaded_by[p]]
                    ELSE uploaded_by
             /\ Logged(w, "upload",
                       IF ret.raised THEN "raise"
                       ELSE IF ret.success THEN "ok" ELSE "false",
                       IF ret.raised THEN None
                       ELSE IF ret.success THEN ret.url ELSE ret.message)
             /\ IF ret.raised
                THEN /\ Raise(w, UploadError(<<ret.exc>>))
                     /\ UNCHANGED processed_url
                ELSE IF UploadFailed(ret)
                THEN /\ Raise(w, UploadError(Wrap(UploadFailedPrefix, ret.message)))
                     /\ UNCHANGED processed_url
                ELSE /\ processed_url' = [processed_url EXCEPT ![w] = ret.url]
                     /\ pc' = [pc EXCEPT ![w] = "refetch"]
                     /\ UNCHANGED error
    /\ UNCHANGED <<db, disk, logo, runs, visit_client_id,
                   db_client, video_content, pvl_video, pvl_processed,
                   temp_video_path, temp_processed_path, processed_filename,
                   dirty, result, created, cleanups, rollbacks, pre, prior, removals, others>>

\* line 290: datetime.utcnow(), read off the count of calls started
UtcNow == runs

\* lines 287-290: the attribute writes, pending in the session until commit
\* the assignment of line 288 left out
UpdatedFieldsWithoutUrl(id, name, url, t) ==
    [pending |-> TRUE, id |-> id, filename_processed |-> name,
     filename_url_processed |-> None, file_status |-> Procesado,
     updated_at |-> t]

UpdatedFields(id, name, url, t) ==
    [pending |-> TRUE, id |-> id, filename_processed |-> name,
     filename_url_processed |-> url, file_status |-> Procesado,
     updated_at |-> t]

\* the flush writing the processed name over filename as well
FlushedRenaming(row, d) ==
    [row EXCEPT !.filename = d.filename_processed,
                !.filename_processed = d.filename_processed,
                !.filename_url_processed = d.filename_url_processed,
                !.file_status = d.file_status,
                !.updated_at = d.updated_at]

\* the flush writing filename_url_processed only where the row has none
FlushedKeepingUrl(row, d) ==
    [row EXCEPT !.filename_processed = d.filename_processed,
                !.filename_url_processed =
                    IF @ = None THEN d.filename_url_processed ELSE @,
                !.file_status = d.file_status,
                !.updated_at = d.updated_at]

\* the row after the session flushed the pending writes d into it
Flushed(row, d) ==
    [row EXCEPT !.filename_processed = d.filename_processed,
                !.filename_url_processed = d.filename_url_processed,
                !.file_status = d.file_status,
                !.updated_at = d.updated_at]

\* a failure inside the try block of _update_visit_client_record: control
\* goes to its except clause (line 297)
PersistRaise(w, e) ==
    /\ error' = [error EXCEPT ![w] = e]
    /\ pc' = [pc EXCEPT ![w] = "rollback"]

\* lines 280-290: fetch the row again and write the four attributes
Refetch(w) ==
    /\ pc[w] = "refetch"
    /\ \E fails \in BOOLEAN :
        IF fails
        THEN /\ Logged(w, "refetch", "raise", None)
             /\ PersistRaise(w, <<"db error">>)
             /\ UNCHANGED <<dirty, db_client>>
        ELSE IF ~db[visit_client_id[w]].present
        THEN /\ Logged(w, "refetch", "none", None)
             /\ PersistRaise(w, <<RecordGoneMsg>>)
             /\ UNCHANGED <<dirty, db_client>>
        ELSE /\ Logged(w, "refetch", "ok", None)
             /\ dirty' = [dirty EXCEPT ![w] =
                    UpdatedFields(visit_client_id[w], processed_filename[w],
                                  processed_url[w], UtcNow)]
             /\ db_client' = [db_client EXCEPT ![w] =
                    Flushed(@, UpdatedFields(visit_client_id[w],
                                             processed_filename[w],
                                             processed_url[w], UtcNow))]
             /\ pc' = [pc EXCEPT ![w] = "commit"]
             /\ UNCHANGED error
    /\ UNCHANGED <<shared, visit_client_id, video_content, pvl_video,
                   pvl_processed, temp_video_path, temp_processed_path,
                   processed_filename, processed_url, result, created,
                   cleanups, rollbacks, pre, prior, removals, others>>

\* line 293: session.commit() flushes the pending writes and commits, or
\* raises (the database fails, or the row is gone and the UPDATE matches
\* nothing) and persists nothing
Commit(w) ==
    /\ pc[w] = "commit"
    /\ \E fails \in BOOLEAN :
        IF fails \/ ~db[dirty[w].id].present
        THEN /\ Logged(w, "commit", "raise", None)
             /\ PersistRaise(w, <<"db error">>)
             /\ UNCHANGED <<db, dirty>>
        ELSE /\ Logged(w, "commit", "ok", None)
             /\ db' = [db EXCEPT ![dirty[w].id] = Flushed(@, dirty[w])]
             /\ dirty' = [dirty EXCEPT ![w] = NoDirty]
             /\ pc' = [pc EXCEPT ![w] = "result"]
             /\ UNCHANGED error
    /\ UNCHANGED <<blobs, uploaded_by, disk, logo, runs, visit_client_id,
                   db_client, video_content, pvl_video, pvl_processed,
                   temp_video_path, temp_processed_path, processed_filename,
                   processed_url, result, created, cleanups, rollbacks, pre, prior, removals, others>>

\* the except clause of lines 297-299 raising the cause as it came
PersistUnwrapped(e) == e

\* line 299
PersistError(e) == Wrap(PersistErrorPrefix, e)

\* the except clause of lines 297-299 deleting the uploaded blob as well
RollbackDeletingBlob(w) ==
    /\ pc[w] = "rollback"
    /\ dirty' = [dirty EXCEPT ![w] = NoDirty]
    /\ rollbacks' = [rollbacks EXCEPT ![w] = @ + 1]
    /\ Raise(w, PersistError(error[w]))
    /\ blobs' = blobs \ {FullPath(BUCKET_FOLDER, processed_filename[w])}
    /\ uploaded_by' = [p \in blobs' |-> uploaded_by[p]]
    /\ UNCHANGED <<db, disk, logo, runs, visit_client_id, db_client,
                   video_content, pvl_video, pvl_processed, temp_video_path,
                   temp_processed_path, processed_filename, processed_url,
                   result, log, created, cleanups, pre, prior, removals, others>>

\* lines 297-299: roll the session back and raise the persist error
Rollback(w) ==
    /\ pc[w] = "rollback"
    /\ dirty' = [dirty EXCEPT ![w] = NoDirty]
    /\ rollbacks' = [rollbacks EXCEPT ![w] = @ + 1]
    /\ Raise(w, PersistError(error[w]))
    /\ UNCHANGED <<shared, visit_client_id, db_client, video_content,
                   pvl_video, pvl_processed, temp_video_path,
                   temp_processed_path, processed_filename, processed_url,
                   result, log, created, cleanups, pre, prior, removals, others>>

\* the dict of lines 86-92 without its status
ResultWithoutStatus(id, original, name, url) ==
    [visit_client_id |-> id, original_filename |-> original,
     processed_filename |-> name, processed_url |-> url,
     status |-> None]

\* lines 86-92
ProcessingResult(id, original, name, url) ==
    [visit_client_id |-> id, original_filename |-> original,
     processed_filename |-> name, processed_url |-> url,
     status |-> Procesado]

\* lines 84-92: the log line and the result read db_client.filename.  The
\* commit expired the loaded row (sessionmaker(bind=engine) keeps
\* expire_on_commit), so the read loads the row again and raises when the
\* database fails or the row is gone
BuildResult(w) ==
    /\ pc[w] = "result"
    /\ \E fails \in BOOLEAN :
        IF fails \/ ~db[visit_client_id[w]].present
        THEN /\ Raise(w, <<"db error">>)
             /\ UNCHANGED <<result, db_client>>
        ELSE /\ db_client' = [db_client EXCEPT ![w] = db[visit_client_id[w]]]
             /\ result' = [result EXCEPT ![w] =
                    ProcessingResult(visit_client_id[w],
                                     db[visit_client_id[w]].filename,
                                     processed_filename[w], processed_url[w])]
             /\ pc' = [pc EXCEPT ![w] = "cleanup"]
             /\ UNCHANGED error
    /\ UNCHANGED <<shared, visit_client_id, video_content, pvl_video,
                   pvl_processed, temp_video_path, temp_processed_path,
                   processed_filename, processed_url, dirty, log, created,
                   cleanups, rollbacks, pre, prior, removals, others>>

\* the except clause of process dropping the reference to the source video
ErrorRowUnlinked(row) == [row EXCEPT !.filename_url = None]

\* lines 97-98: the except clause of process writes nothing to the row
ErrorRow(row) == row

\* line 100
ProcessError(e) == Wrap(ProcessErrorPrefix, e)

\* lines 94-100: wrap whatever was raised and raise it again
Except(w) ==
    /\ pc[w] = "except"
    /\ error' = [error EXCEPT ![w] = ProcessError(@)]
    /\ db' = [i \in Ids |-> IF i = visit_client_id[w] THEN ErrorRow(db[i]) ELSE db[i]]
    /\ pc' = [pc EXCEPT ![w] = "cleanup"]
    /\ UNCHANGED <<blobs, uploaded_by, disk, logo, runs, visit_client_id,
                   db_client, video_content, pvl_video, pvl_processed,
                   temp_video_path, temp_processed_path, processed_filename,
                   processed_url, dirty, result, log, created, cleanups,
                   rollbacks, pre, prior, removals, others>>

\* line 104: the list handed to _cleanup_temp_files
CleanupPaths(w) == {temp_video_path[w], temp_processed_path[w]}

\* line 309: file_path and os.path.exists(file_path)
Removable(paths) == {f \in paths : f # 0 /\ f \in disk}

\* the loop of line 308 ending at the first os.remove that raises
AttemptedUntilFailure(first, second, failing) ==
    IF first \in failing THEN Removable({first}) ELSE Removable({first, second})

\* lines 308-314: the paths os.remove is called on, when the removals of the
\* paths in failing raise: the except clause is inside the loop, so every
\* path that is set and exists is tried
Attempted(first, second, failing) == Removable({first, second})

\* the finally clause of lines 102-104 left out
CleanupSkipped(w) ==
    /\ pc[w] = "cleanup"
    /\ pc' = [pc EXCEPT ![w] = "done"]
    /\ UNCHANGED <<shared, visit_client_id, db_client, video_content,
                   pvl_video, pvl_processed, temp_video_path,
                   temp_processed_path, processed_filename, processed_url,
                   dirty, error, result, log, created, cleanups, rollbacks,
                   pre, prior, removals, others>>

\* lines 102-104 and _cleanup_temp_files: os.remove each path that is set and
\* exists; a removal that raises is logged and the file stays
Cleanup(w) ==
    /\ pc[w] = "cleanup"
    /\ \E failing \in SUBSET Removable(CleanupPaths(w)) :
        /\ removals' = [removals EXCEPT ![w] =
               Attempted(temp_video_path[w], temp_processed_path[w], failing)]
        /\ disk' = disk \ (Attempted(temp_video_path[w], temp_processed_path[w],
                                     failing) \ failing)
    /\ cleanups' = [cleanups EXCEPT ![w] = @ + 1]
    /\ pc' = [pc EXCEPT ![w] = "done"]
    /\ UNCHANGED <<db, blobs, uploaded_by, logo, runs, visit_client_id,
                   db_client, video_content, pvl_video, pvl_processed,
                   temp_video_path, temp_processed_path, processed_filename,
                   processed_url, dirty, error, result, log, created,
                   rollbacks, pre, prior, others>>

\* the call ends: the caller receives result[w] or the exception error[w]
Return(w) ==
    /\ pc[w] = "done"
    /\ pc' = [pc EXCEPT ![w] = "idle"]
    /\ UNCHANGED <<shared, visit_client_id, db_client, video_content,
                   pvl_video, pvl_processed, temp_video_path,
                   temp_processed_path, processed_filename, processed_url,
                   dirty, error, result, log, created, cleanups, rollbacks,
                   pre, prior, removals, others>>

\* the statements that read the row from the database: the query of line 52,
\* the query of line 281, the UPDATE of the commit, the reload of line 84
RowReads == {"lookup", "refetch", "commit", "result"}

\* a row is removed by another client of the database (ON DELETE CASCADE
\* from scheduled_visits) while a call is working on it.  A call sees a
\* removal at its next statement that reads the row, so the removal is taken
\* right before such a statement; a row removed while no call works on it
\* is, to every later call, a row removed as that call starts
DeleteRow(id) ==
    /\ db[id].present
    /\ \E w \in Workers : pc[w] \in RowReads /\ visit_client_id[w] = id
    /\ db' = [db EXCEPT ![id] = AbsentRow]
    /\ UNCHANGED <<blobs, uploaded_by, disk, logo, runs, locals, others>>

\* the next statement of the call w is in
Proceed(w) ==
    \/ Lookup(w)
    \/ Validate(w)
    \/ Download(w)
    \/ StageVideo(w)
    \/ OpenVideo(w)
    \/ BrandVideo(w)
    \/ CreateOutput(w)
    \/ EncodeVideo(w)
    \/ Naming(w)
    \/ Upload(w)
    \/ Refetch(w)
    \/ Commit(w)
    \/ Rollback(w)
    \/ BuildResult(w)
    \/ Except(w)
    \/ Cleanup(w)
    \/ Return(w)

Step(w) ==
    \/ \E id \in Ids : Start(w, id) /\ UNCHANGED http
    \/ Proceed(w)

Next ==
    \/ \E w \in SeqWorkers : Step(w)
    \/ \E id \in Ids : DeleteRow(id)

Spec == Init /\ [][Next]_vars

(***************************************************************************)
(* Two requests for different records served at the same time (the Flask   *)
(* route builds a controller, an engine and a session for each request).   *)
(***************************************************************************)
\* the record each worker's requests are for
RecordOf(w) == IF w = "w1" THEN 1 ELSE 2

\* the tables the two requests start from: record 1 with the same file
\* name as record 2, with another one, or not there (rows removed under a
\* running call are followed in Spec)
InitConcurrent ==
    InitWith({ NewRow(PlainName, SampleUrl),
               NewRow(<<"d", "/", "a", ".", "b", ".", "c">>, SampleUrl),
               AbsentRow })

\* the one request of worker w arrives
Arrive(w) ==
    /\ visit_client_id[w] = 0
    /\ Start(w, RecordOf(w))
    /\ UNCHANGED http

NextConcurrent ==
    \/ \E w \in Workers : Arrive(w)
    \/ \E w \in Workers : Proceed(w)

SpecConcurrent == InitConcurrent /\ [][NextConcurrent]_vars

(***************************************************************************)
(* VideoProcessorController.process_video: what it does with a request.    *)
(* A JSON value is a record of its type t and its content: n for a number  *)
(* (a float in tenths), s for the characters of a string, n for the length *)
(* of a list or an object.                                                 *)
(***************************************************************************)
JNull == [t |-> "null", n |-> 0, s |-> <<>>]
JBool(b) == [t |-> "bool", n |-> IF b THEN 1 ELSE 0, s |-> <<>>]
JInt(n) == [t |-> "int", n |-> n, s |-> <<>>]
JFloat(tenths) == [t |-> "float", n |-> tenths, s |-> <<>>]
JStr(s) == [t |-> "str", n |-> 0, s |-> s]
JList(len) == [t |-> "list", n |-> len, s |-> <<>>]
JDict(len) == [t |-> "dict", n |-> len, s |-> <<>>]

\* line 115: not v
PyFalsy(v) ==
    CASE v.t = "null" -> TRUE
      [] v.t = "str" -> v.s = <<>>
      [] OTHER -> v.n = 0

Digits == {"0", "1", "2", "3", "4", "5", "6", "7", "8", "9"}

DigitValue(c) ==
    CASE c = "0" -> 0 [] c = "1" -> 1 [] c = "2" -> 2 [] c = "3" -> 3
      [] c = "4" -> 4 [] c = "5" -> 5 [] c = "6" -> 6 [] c = "7" -> 7
      [] c = "8" -> 8 [] c = "9" -> 9

RECURSIVE Decimal(_)
Decimal(s) ==
    IF s = <<>> THEN 0
    ELSE 10 * Decimal(SubSeq(s, 1, Len(s) - 1)) + DigitValue(s[Len(s)])

RECURSIVE Strip(_)
\* str.strip() as int() applies it to its argument
Strip(s) ==
    IF s = <<>> THEN s
    ELSE IF s[1] = " " THEN Strip(Tail(s))
    ELSE IF s[Len(s)] = " " THEN Strip(SubSeq(s, 1, Len(s) - 1))
    ELSE s

\* int(str): blanks around, one optional sign, then digits only
IntOfStr(s) ==
    LET t == Strip(s)
        signed == t # <<>> /\ t[1] \in {"+", "-"}
        body == IF signed THEN Tail(t) ELSE t
    IN  IF body # <<>> /\ \A i \in DOMAIN body : body[i] \in Digits
        THEN [how |-> "ok",
              v |-> IF signed /\ t[1] = "-" THEN 0 - Decimal(body)
                    ELSE Decimal(body)]
        ELSE [how |-> "ValueError", v |-> 0]

\* int(float) with the float given in tenths leaving its fraction
TruncatedInt(tenths) ==
    IF tenths >= 0 THEN tenths \div 10 ELSE 0 - ((0 - tenths) \div 10)

\* line 124: int(v) gives a number or raises
PyInt(v) ==
    CASE v.t \in {"int", "bool"} -> [how |-> "ok", v |-> v.n]
      [] v.t = "float" -> [how |-> "ok", v |-> TruncatedInt(v.n)]
      [] v.t = "str" -> IntOfStr(v.s)
      [] OTHER -> [how |-> "TypeError", v |-> 0]

\* the messages of the controller
NoJsonMsg == "Peticion sin contenido JSON"
BadPubSubMsg == "Formato de mensaje Pub/Sub invalido"
NoDataMsg == "Mensaje sin data"
DecodeErrorPrefix == "Error al decodificar mensaje"
NoIdMsg == "Evento sin scheduled_visit_client_id"
NotIntegerMsg == "scheduled_visit_client_id debe ser un numero entero"
ProcessedMsg == "Video procesado exitosamente"
ControllerErrorPrefix == "Error al procesar video"

\* jsonify({...}), status
Answer(status, success, message, data) ==
    [status |-> status, success |-> success, message |-> message, data |-> data]

\* a request: what its body is, and (for a body that holds an event with a
\* scheduled_visit_client_id) the value of that key
Request(shape, id) == [shape |-> shape, id |-> id]

\* the value of event_data.get('scheduled_visit_client_id') (line 114)
EventId(req) == IF req.shape = "event" THEN req.id ELSE JNull

\* a body, a message or an event that is JSON but no object: the membership
\* test or the method call on it raises
NotAnObject == {"body_scalar", "message_scalar", "event_scalar"}

\* lines 68-130: the response the controller gives without calling the
\* service, or the argument it calls the service with
Validated(req) ==
    IF req.shape \in {"not_json", "empty_body"}
    THEN [call |-> FALSE, id |-> 0,
          answer |-> Answer(400, FALSE, <<NoJsonMsg>>, NoResult)]
    ELSE IF req.shape = "body_scalar"
    THEN [call |-> FALSE, id |-> 0,
          answer |-> Answer(500, FALSE, <<ControllerErrorPrefix, "TypeError">>, NoResult)]
    ELSE IF req.shape = "no_message"
    THEN [call |-> FALSE, id |-> 0,
          answer |-> Answer(400, FALSE, <<BadPubSubMsg>>, NoResult)]
    ELSE IF req.shape = "message_scalar"
    THEN [call |-> FALSE, id |-> 0,
          answer |-> Answer(500, FALSE, <<ControllerErrorPrefix, "TypeError">>, NoResult)]
    ELSE IF req.shape = "no_data"
    THEN [call |-> FALSE, id |-> 0,
          answer |-> Answer(400, FALSE, <<NoDataMsg>>, NoResult)]
    ELSE IF req.shape = "bad_data"
    THEN [call |-> FALSE, id |-> 0,
          answer |-> Answer(400, FALSE, <<DecodeErrorPrefix, "decode error">>, NoResult)]
    ELSE IF req.shape = "event_scalar"
    THEN [call |-> FALSE, id |-> 0,
          answer |-> Answer(500, FALSE, <<ControllerErrorPrefix, "AttributeError">>, NoResult)]
    ELSE IF PyFalsy(EventId(req))
    THEN [call |-> FALSE, id |-> 0,
          answer |-> Answer(400, FALSE, <<NoIdMsg>>, NoResult)]
    ELSE IF PyInt(EventId(req)).how = "ValueError"
    THEN [call |-> FALSE, id |-> 0,
          answer |-> Answer(400, FALSE, <<NotIntegerMsg>>, NoResult)]
    ELSE IF PyInt(EventId(req)).how # "ok"
    THEN [call |-> FALSE, id |-> 0,
          answer |-> Answer(500, FALSE,
                            <<ControllerErrorPrefix, PyInt(EventId(req)).how>>,
                            NoResult)]
    ELSE [call |-> TRUE, id |-> PyInt(EventId(req)).v,
          answer |-> NoResponse]

\* the response to a call of the service answering 200 whatever happened
AnsweredAlwaysOk(e, res) == Answer(200, TRUE, <<ProcessedMsg>>, res)

\* lines 137-150: the response after the call of the service: its result,
\* or the error it raised
Answered(e, res) ==
    IF e = NoError
    THEN Answer(200, TRUE, <<ProcessedMsg>>, res)
    ELSE Answer(500, FALSE, Wrap(ControllerErrorPrefix, e), NoResult)

\* the values a publisher may put under scheduled_visit_client_id
SampleIds ==
    { JInt(1), JInt(2), JInt(0), JInt(0 - 1), JInt(7),
      JStr(<<"1">>), JStr(<<" ", "2", " ">>), JStr(<<"-", "1">>),
      JStr(<<"0">>), JStr(<<"a">>), JStr(<<"1", ".", "5">>), JStr(<<>>),
      JFloat(15), JFloat(0 - 5), JFloat(0),
      JBool(TRUE), JBool(FALSE), JNull,
      JList(0), JList(1), JDict(1) }

\* the requests that may arrive
Requests ==
    { Request(shape, JNull) :
        shape \in {"not_json", "empty_body", "no_message", "no_data",
                   "bad_data", "event_no_id"} \cup NotAnObject }
      \cup { Request("event", id) : id \in SampleIds }

\* lines 68-135: a request arrives at the controller the route made for
\* it; the controller answers it at once or calls the service
Receive(w) ==
    /\ pc[w] = "idle"
    /\ request[w] = NoRequest
    /\ \E req \in Requests :
        /\ request' = [request EXCEPT ![w] = req]
        /\ IF Validated(req).call
           THEN /\ invocations' = [invocations EXCEPT ![w] =
                                       Append(@, Validated(req).id)]
                /\ Start(w, Validated(req).id)
                /\ UNCHANGED response
           ELSE /\ response' = [response EXCEPT ![w] = Validated(req).answer]
                /\ UNCHANGED <<shared, locals, invocations, outside>>

\* lines 137-150: the call of the service has come back
Respond(w) ==
    /\ pc[w] = "idle"
    /\ invocations[w] # <<>>
    /\ response[w] = NoResponse
    /\ response' = [response EXCEPT ![w] = Answered(error[w], result[w])]
    /\ UNCHANGED <<shared, locals, request, invocations, outside>>

\* a table of two rows with a video each
InitPlain == InitWith({NewRow(PlainName, SampleUrl)})

NextController ==
    \/ \E w \in SeqWorkers : Receive(w)
    \/ \E w \in SeqWorkers : Proceed(w)
    \/ \E w \in SeqWorkers : Respond(w)

SpecController == InitPlain /\ [][NextController]_vars

(***************************************************************************)
(* CloudStorageService.upload_file called on its own, with any file.       *)
(***************************************************************************)
\* the files a caller may hand over: none, one without a name, one of each
\* size
SampleFiles ==
    {NoFile, FileStorage(None, 1), FileStorage(Empty, 1)}
        \cup {FileStorage(PlainName, size) : size \in FileSizes}

\* the names and the folders a caller may ask for
SampleTargets == {PlainName, GenerateProcessedFilename(PlainName)}
SampleFolders == {NoFolder, "videos"}

\* one call of upload_file by w: what it was called with, the bucket before
\* it, what came back
UploadCall(w) ==
    /\ \E file \in SampleFiles, filename \in SampleTargets,
          folder \in SampleFolders, how \in UploadHows :
        LET ret == UploadFile(file, filename, folder, how)
            path == FullPath(TargetFolder(folder), filename)
        IN
        /\ blobs' = IF ret.stored THEN blobs \cup {path} ELSE blobs
        /\ uploaded_by' =
               IF ret.stored
               THEN [p \in blobs \cup {path} |->
                       IF p = path THEN w ELSE uploaded_by[p]]
               ELSE uploaded_by
        /\ upload_ret' = [called |-> TRUE, file |-> file, filename |-> filename,
                          folder |-> folder, before |-> blobs, ret |-> ret]
    /\ UNCHANGED <<db, disk, logo, runs, locals, http, scheduled_visits,
                   creating, creates>>

NextStorage == \E w \in SeqWorkers : UploadCall(w)

SpecStorage == InitPlain /\ [][NextStorage]_vars

(***************************************************************************)
(* ScheduledVisitRepository.create, called from sessions of its own: each  *)
(* worker has a session; a session sees the rows other sessions have       *)
(* committed.                                                              *)
(***************************************************************************)
Sellers == {"s1", "s2"}
Dates == {"d1", "d2"}

\* db_models.py lines 15-17: the row of a visit (the caller gives each
\* visit an id of its own)
Visit(id, seller_id, date) == [id |-> id, seller_id |-> seller_id, date |-> date]

\* lines 28-31: the committed visits of the same seller on the same date
Existing(visit) ==
    {v \in scheduled_visits :
        v.seller_id = visit.seller_id /\ v.date = visit.date}

\* the call of w moves on, or ends with an outcome
CreateAt(w, at, outcome) ==
    creating' = [creating EXCEPT ![w].at = at, ![w].outcome = outcome]

\* line 23: a call of create begins
CreateBegin(w) ==
    /\ creating[w].at \in {"idle", "done"}
    /\ creates < MaxCreates
    /\ creates' = creates + 1
    /\ \E seller_id \in Sellers, date \in Dates :
        creating' = [creating EXCEPT ![w] =
            [at |-> "query", outcome |-> "none",
             visit |-> Visit(creates + 1, seller_id, date)]]
    /\ UNCHANGED <<shared, locals, http, upload_ret, scheduled_visits>>

\* lines 28-37: the query for a visit of the pair; it raises, finds one
\* (ValueError, re-raised at line 66 with nothing added), or finds none
CreateQuery(w) ==
    /\ creating[w].at = "query"
    /\ \E fails \in BOOLEAN :
        IF fails THEN CreateAt(w, "done", "Exception")
        ELSE IF Existing(creating[w].visit) # {}
        THEN CreateAt(w, "done", "ValueError")
        ELSE CreateAt(w, "flush", "none")
    /\ UNCHANGED <<shared, locals, http, upload_ret, scheduled_visits, creates>>

\* lines 40-57: the INSERT of the visit inside the transaction of the
\* session, not visible to the others, and the client rows added
CreateFlush(w) ==
    /\ creating[w].at = "flush"
    /\ \E fails \in BOOLEAN :
        IF fails THEN CreateAt(w, "done", "Exception")
        ELSE CreateAt(w, "commit", "none")
    /\ UNCHANGED <<shared, locals, http, upload_ret, scheduled_visits, creates>>

\* lines 59-69: the commit (no constraint of the table can refuse a second
\* visit of the pair), the refresh and the return; a failed commit is
\* rolled back
CreateCommit(w) ==
    /\ creating[w].at = "commit"
    /\ \E fails \in BOOLEAN :
        IF fails
        THEN /\ CreateAt(w, "done", "Exception")
             /\ UNCHANGED scheduled_visits
        ELSE /\ CreateAt(w, "done", "created")
             /\ scheduled_visits' = scheduled_visits \cup {creating[w].visit}
    /\ UNCHANGED <<shared, locals, http, upload_ret, creates>>

NextCreate ==
    \E w \in Workers :
        CreateBegin(w) \/ CreateQuery(w) \/ CreateFlush(w) \/ CreateCommit(w)

SpecCreate == InitPlain /\ [][NextCreate]_vars

(***************************************************************************)
(* Two requests for the same record served at the same time (Pub/Sub       *)
(* delivers an event again while the first delivery is still processed).   *)
(***************************************************************************)
\* the one request of worker w arrives; it is for record 1
ArriveSame(w) ==
    /\ visit_client_id[w] = 0
    /\ Start(w, 1)
    /\ UNCHANGED http

NextSameRecord ==
    \/ \E w \in Workers : ArriveSame(w)
    \/ \E w \in Workers : Proceed(w)

SpecSameRecord == InitPlain /\ [][NextSameRecord]_vars

(***************************************************************************)
(* One request for a record whose file name is any short name.             *)
(***************************************************************************)
\* every name of one to three characters out of a letter, the dot and the
\* slash, and names that already look like a processed file
OriginalNames ==
    UNION { [1..n -> {"a", ".", "/"}] : n \in 1..3 }
        \cup { ProcessedSuffix, <<"a">> \o ProcessedSuffix,
               <<"a", ".", "m", "p", "4">>,
               GenerateProcessedFilename(<<"a">> \o ProcessedSuffix) }

InitNames == InitWith({ NewRow(fn, SampleUrl) : fn \in OriginalNames })

NextNames == \E w \in SeqWorkers : ArriveSame(w) \/ Proceed(w)

SpecNames == InitNames /\ [][NextNames]_vars

(***************************************************************************)
(* Properties.                                                             *)
(***************************************************************************)
\* the call of worker w has finished (the finally clause has run) ...
Finished(w) == pc[w] = "done"
\* ... by raising
Failed(w) == Finished(w) /\ error[w] # NoError
\* ... by returning the result
Returned(w) == Finished(w) /\ error[w] = NoError

\* the row the call of w is about, now and when the call started (no row
\* before the first call of w)
Row(w) == IF visit_client_id[w] \in Ids THEN db[visit_client_id[w]] ELSE AbsentRow
RowBefore(w) ==
    IF visit_client_id[w] \in Ids THEN pre[w][visit_client_id[w]] ELSE AbsentRow

\* the call of w made the collaborator call op and it ended res
Did(w, op, res) == \E i \in DOMAIN log[w] : log[w][i].op = op /\ log[w][i].res = res
Called(w, op) == \E i \in DOMAIN log[w] : log[w][i].op = op

\* C1: a call of process that ends by raising leaves every persisted field of
\* its row as it was when the call started.
C1_FailedRunLeavesRowUntouched ==
    \A w \in Workers :
        (Failed(w) /\ Row(w).present) => Row(w) = RowBefore(w)

\* C1, where it fails: the commit succeeded and the read of the expired row
\* that follows it raised
C1_RaisedAfterCommit ==
    \E w \in Workers :
        /\ Failed(w)
        /\ Did(w, "commit", "ok")
        /\ Row(w).present
        /\ Row(w).file_status = Procesado
        /\ RowBefore(w).file_status = None

\* the collaborator calls of one run, in the order of the code
PipelineOrder == <<"lookup", "download", "compose", "upload", "refetch", "commit">>

\* the first n collaborator calls of the run of w are the first n of the
\* pipeline and all succeeded
FirstOk(w, n) ==
    /\ Len(log[w]) >= n
    /\ \A i \in 1..n : log[w][i].op = PipelineOrder[i] /\ log[w][i].res = "ok"

\* C2: the commit that writes the success marker is reached only after lookup
\* found the row with a non-empty filename and filename_url, download returned
\* bytes, compose produced the output file and upload reported success; and a
\* row changes during a run only by that commit.
C2_MarkerOnlyAfterEveryStep ==
    \A w \in Workers :
        /\ (pc[w] = "commit" \/ Called(w, "commit")) =>
              /\ FirstOk(w, 5)
              /\ ~Falsy(db_client[w].filename)
              /\ ~Falsy(db_client[w].filename_url)
              /\ video_content[w]
              /\ temp_processed_path[w] \in created[w]
        /\ (Row(w).present /\ Row(w) # RowBefore(w)) =>
              /\ Did(w, "commit", "ok")
              /\ Row(w).file_status = Procesado

\* C2, its case: a run marked a row that had no marker
C2_Marked ==
    \E w \in Workers :
        /\ Returned(w)
        /\ Row(w).present
        /\ Row(w).file_status = Procesado
        /\ RowBefore(w).file_status = None

\* C3: when a call has finished, no temporary file it created is on disk.
C3_NoTempFileLeft ==
    \A w \in Workers : Finished(w) => created[w] \cap disk = {}

\* C3, where it fails: compose raised after it created its staging file, so
\* process never learnt the path and the file is still there
C3_StagingFileLeft ==
    \E w \in Workers :
        /\ Failed(w)
        /\ Did(w, "compose", "raise")
        /\ temp_video_path[w] = 0
        /\ created[w] \cap disk # {}

\* the file name x without its last extension: cut at the last dot when that
\* dot lies in the final path segment after a character that is not a dot
LastExtensionStripped(x) ==
    LET cuts == { k \in 1..Len(x) :
                    /\ x[k] = "."
                    /\ \A j \in (k + 1)..Len(x) : x[j] \notin {".", "/"}
                    /\ \E j \in 1..(k - 1) :
                          /\ x[j] # "."
                          /\ \A m \in j..(k - 1) : x[m] # "/" }
    IN  IF cuts = {} THEN x ELSE SubSeq(x, 1, (CHOOSE k \in cuts : TRUE) - 1)

\* C4: when process returns a result, the row has the success marker, its
\* filename_processed and filename_url_processed are the result's
\* processed_filename and processed_url, the processed_filename is the
\* original filename without its last extension plus "_processed.mp4", and
\* the processed_url is the URL upload_file returned.
C4_ResultIsWhatWasPersisted ==
    \A w \in Workers :
        Returned(w) =>
            /\ ~Falsy(RowBefore(w).filename) /\ ~Falsy(RowBefore(w).filename_url)
            /\ result[w].processed_filename =
                   LastExtensionStripped(RowBefore(w).filename) \o ProcessedSuffix
            /\ Len(log[w]) >= 4
            /\ log[w][4] = Entry("upload", "ok", result[w].processed_url)
            /\ Row(w).present =>
                  /\ Row(w).file_status = Procesado
                  /\ Row(w).filename_processed = result[w].processed_filename
                  /\ Row(w).filename_url_processed = result[w].processed_url

\* C4, its case: a result for a name with a directory and two dots
C4_Returned ==
    \E w \in Workers :
        /\ Returned(w)
        /\ Row(w).present
        /\ RowBefore(w).filename = <<"d", "/", "a", ".", "b", ".", "c">>
        /\ result[w].processed_filename = <<"d", "/", "a", ".", "b">> \o ProcessedSuffix

\* C5: every row that carries the success marker has a non-empty
\* filename_processed and a non-empty filename_url_processed.
C5_MarkedRowHasBothFields ==
    \A i \in Ids :
        (db[i].present /\ db[i].file_status = Procesado) =>
            /\ ~Falsy(db[i].filename_processed)
            /\ ~Falsy(db[i].filename_url_processed)

\* C5, where it fails: upload_file returned (True, message, "") and the run
\* committed the empty URL with the marker
C5_MarkedWithEmptyUrl ==
    \E w \in Workers :
        /\ Returned(w)
        /\ Did(w, "upload", "ok")
        /\ Row(w).present
        /\ Row(w).file_status = Procesado
        /\ Row(w).filename_url_processed = Empty

\* the collaborator calls that must have succeeded before the statement at p
Predecessors(p) ==
    CASE p = "lookup" -> 0
      [] p \in {"validate", "download"} -> 1
      [] p \in {"stage", "open", "logo", "mkout", "encode"} -> 2
      [] p \in {"naming", "upload"} -> 3
      [] p = "refetch" -> 4
      [] p = "commit" -> 5
      [] p = "result" -> 6

\* the statements after which no pipeline step starts
Unwinding == {"rollback", "except", "cleanup", "done", "idle"}

\* C6: the collaborator calls of one run are a prefix of lookup, download,
\* compose, upload, re-fetch, commit; each starts only when all before it
\* succeeded, none is repeated, and after the first failure no step starts.
C6_StepsInOrderNoRetry ==
    \A w \in Workers :
        /\ Len(log[w]) <= Len(PipelineOrder)
        /\ \A i \in DOMAIN log[w] :
              /\ log[w][i].op = PipelineOrder[i]
              /\ i < Len(log[w]) => log[w][i].res = "ok"
        /\ (log[w] # <<>> /\ log[w][Len(log[w])].res # "ok") => pc[w] \in Unwinding
        /\ pc[w] \notin Unwinding =>
              /\ Len(log[w]) = Predecessors(pc[w])
              /\ FirstOk(w, Predecessors(pc[w]))

\* C6, its case: a run that stopped at a refused upload
C6_StoppedAtUpload ==
    \E w \in Workers :
        /\ Finished(w)
        /\ Len(log[w]) = 4
        /\ log[w][4].op = "upload"
        /\ log[w][4].res = "false"

\* C7: when the row is absent, process fails with the not-found error, the
\* lookup is its only collaborator call, and nothing is written or committed.
C7_AbsentRowFailsWithoutEffect ==
    \A w \in Workers :
        Did(w, "lookup", "none") =>
            /\ Len(log[w]) = 1
            /\ pc[w] \in Unwinding
            /\ ~Row(w).present
            /\ \A i \in Ids : db[i].present => db[i] = pre[w][i]
            /\ dirty[w] = NoDirty
            /\ Finished(w) => error[w] = <<ProcessErrorPrefix, NotFoundMsg>>

\* C7, its case
C7_NotFound ==
    \E w \in Workers :
        /\ Failed(w)
        /\ Did(w, "lookup", "none")
        /\ \E i \in Ids : db[i].present

\* C8: when the row exists but its filename or filename_url is empty or None,
\* process fails with the no-video error and neither download nor compose,
\* upload or commit is called.
C8_NoVideoFailsBeforeDownload ==
    \A w \in Workers :
        (/\ Did(w, "lookup", "ok")
         /\ Falsy(RowBefore(w).filename) \/ Falsy(RowBefore(w).filename_url)) =>
            /\ Len(log[w]) = 1
            /\ pc[w] \in Unwinding \cup {"validate"}
            /\ dirty[w] = NoDirty
            /\ Finished(w) => error[w] = <<ProcessErrorPrefix, NoVideoMsg>>

\* C8, its case: a filename but an empty filename_url
C8_NoVideo ==
    \E w \in Workers :
        /\ Failed(w)
        /\ Did(w, "lookup", "ok")
        /\ ~Falsy(RowBefore(w).filename)
        /\ RowBefore(w).filename_url = Empty

\* C9: when download_file raises, process fails with an error that names the
\* download stage, the row is as it was, cleanup runs, and compose, upload
\* and persist are not executed.
C9_DownloadFailureStopsTheRun ==
    \A w \in Workers :
        Did(w, "download", "raise") =>
            /\ Len(log[w]) = 2
            /\ pc[w] \in Unwinding
            /\ dirty[w] = NoDirty
            /\ Row(w).present => Row(w) = RowBefore(w)
            /\ Finished(w) =>
                  /\ Len(error[w]) >= 2
                  /\ error[w][1] = ProcessErrorPrefix
                  /\ error[w][2] = DownloadErrorPrefix
                  /\ cleanups[w] = 1

\* C9, its case
C9_DownloadFailed ==
    \E w \in Workers :
        /\ Failed(w)
        /\ Did(w, "download", "raise")
        /\ RowBefore(w).present

\* C10: when upload_file returns a false success flag, process fails with the
\* upload error carrying the store's message, no commit is attempted, and the
\* row's file_status is what it was before the call.
C10_RefusedUploadIsNotCommitted ==
    \A w \in Workers :
        Did(w, "upload", "false") =>
            /\ Len(log[w]) = 4
            /\ pc[w] \in Unwinding \ {"rollback"}
            /\ dirty[w] = NoDirty
            /\ Row(w).present => Row(w).file_status = RowBefore(w).file_status
            /\ Finished(w) =>
                  error[w] = <<ProcessErrorPrefix, UploadErrorPrefix,
                               UploadFailedPrefix>> \o log[w][4].val

\* C10, its case: the store refused the file as too large
C10_UploadRefused ==
    \E w \in Workers :
        /\ Failed(w)
        /\ Did(w, "upload", "false")
        /\ log[w][4].val = <<"El archivo excede el tamano maximo permitido">>
        /\ RowBefore(w).file_status = None

\* the persist step of the run of w failed: the re-fetch raised or found no
\* row, or the commit raised
PersistFailed(w) ==
    \/ Did(w, "refetch", "raise")
    \/ Did(w, "refetch", "none")
    \/ Did(w, "commit", "raise")

\* C11: when the persist step fails (the commit raises, or the re-fetch finds
\* no row or raises), the session is rolled back once, nothing of the
\* pending writes is left or persisted, and process fails with an error that
\* names the persist stage.
C11_PersistFailureRollsBack ==
    \A w \in Workers :
        PersistFailed(w) =>
            /\ pc[w] \in Unwinding
            /\ pc[w] # "rollback" => (rollbacks[w] = 1 /\ dirty[w] = NoDirty)
            /\ Row(w).present => Row(w) = RowBefore(w)
            /\ Finished(w) =>
                  /\ Len(error[w]) >= 3
                  /\ error[w][1] = ProcessErrorPrefix
                  /\ error[w][2] = PersistErrorPrefix

\* C11, its case: the commit raised on a row that is still there
C11_CommitRaised ==
    \E w \in Workers :
        /\ Failed(w)
        /\ Did(w, "commit", "raise")
        /\ rollbacks[w] = 1
        /\ Row(w).present
        /\ Row(w).file_status = None

\* C12: when the logo file is missing, the staged video is never opened by
\* the decoder: no run gets past VideoFileClip, and no run fails with the
\* decoder's error.
C12_LogoCheckedBeforeDecode ==
    \A w \in Workers :
        ~logo =>
            /\ pc[w] # "logo"
            /\ Failed(w) =>
                  error[w] # <<ProcessErrorPrefix, ComposeErrorPrefix, "decode error">>

\* C12, where it fails: the logo is missing and the run failed in the decoder,
\* which was handed the staged video before the logo was looked for
C12_DecodedWithoutLogo ==
    \E w \in Workers :
        /\ ~logo
        /\ Failed(w)
        /\ Did(w, "compose", "raise")
        /\ error[w] = <<ProcessErrorPrefix, ComposeErrorPrefix, "decode error">>

\* a call of w has started and not yet handed its outcome to the caller
InCall(w) == pc[w] \notin {"idle", "done"}

\* C13: _cleanup_temp_files has not run while a step of the call is still to
\* come, and has run exactly once when the result or the error reaches the
\* caller, whether the call returned or raised.
C13_CleanupExactlyOnce ==
    \A w \in Workers :
        /\ InCall(w) => cleanups[w] = 0
        /\ Finished(w) => cleanups[w] = 1
        /\ (pc[w] = "idle" /\ visit_client_id[w] \in Ids) => cleanups[w] = 1
        /\ (pc[w] = "idle" /\ visit_client_id[w] \notin Ids) => cleanups[w] = 0

\* C13, its case: a run that failed in compose has handed its error to the
\* caller after one cleanup
C13_FailedRunCleaned ==
    \E w \in Workers :
        /\ pc[w] = "idle"
        /\ error[w] # NoError
        /\ Did(w, "compose", "raise")
        /\ cleanups[w] = 1

\* C14: the cleanup step changes neither the error being raised nor the
\* result being returned, whichever removals fail, and os.remove is called on
\* every path handed to it, also after a removal that failed.
C14_CleanupNeverChangesOutcome ==
    [][\A w \in Workers :
          pc[w] = "cleanup" =>
              /\ error'[w] = error[w]
              /\ result'[w] = result[w]
              /\ pc'[w] # "cleanup" =>
                    /\ pc'[w] = "done"
                    /\ removals'[w] = CleanupPaths(w) \ {0}]_vars

\* C14, its case: the removal of the staging file failed, the output file
\* was removed all the same, and the call returned its result
C14_FirstRemovalFailed ==
    \E w \in Workers :
        /\ Returned(w)
        /\ result[w] # NoResult
        /\ temp_video_path[w] \in disk
        /\ temp_processed_path[w] \notin disk
        /\ removals[w] = {temp_video_path[w], temp_processed_path[w]}

\* the columns of a row that hold a value
Populated(row) ==
    { f \in {"filename", "filename_url", "file_status", "filename_processed",
             "filename_url_processed"} : row[f] # None }

\* C15: a run that returns a result for a row an earlier run had marked
\* leaves filename_processed as that run left it, filename_url_processed as
\* the URL of this run's upload, the marker in place, the same columns
\* populated, no row more than before and the blob under the same path.
C15_RerunOverwrites ==
    \A w \in Workers :
        (Returned(w) /\ RowBefore(w).file_status = Procesado /\ Row(w).present) =>
            /\ Row(w).file_status = Procesado
            /\ Row(w).filename_processed = RowBefore(w).filename_processed
            /\ Row(w).filename_url_processed = log[w][4].val
            /\ Row(w).filename_url_processed = result[w].processed_url
            /\ Row(w).filename = RowBefore(w).filename
            /\ Row(w).filename_url = RowBefore(w).filename_url
            /\ Populated(Row(w)) = Populated(RowBefore(w))
            /\ \A i \in Ids : db[i].present => pre[w][i].present
            /\ FullPath(BUCKET_FOLDER, RowBefore(w).filename_processed) \in blobs

\* C15, its case: the second run returned and replaced the URL of the first
C15_SecondRunReturned ==
    \E w \in Workers :
        /\ Returned(w)
        /\ Row(w).present
        /\ RowBefore(w).file_status = Procesado
        /\ Row(w).filename_url_processed # RowBefore(w).filename_url_processed
        /\ Row(w).updated_at > RowBefore(w).updated_at

\* the file name x cut at the last dot of its final path segment
CutAtLastDot(x) ==
    LET dots == { k \in 1..Len(x) :
                    /\ x[k] = "."
                    /\ \A j \in (k + 1)..Len(x) : x[j] \notin {".", "/"} }
    IN  IF dots = {} THEN x ELSE SubSeq(x, 1, (CHOOSE k \in dots : TRUE) - 1)

\* C16: the processed filename is the original filename cut at the last dot
\* of its final path segment, followed by "_processed.mp4", for every name:
\* several dots, directories, no dot, a final segment that begins with a dot.
C16_CutsAtLastDot ==
    \A w \in Workers :
        processed_filename[w] # None =>
            processed_filename[w] = CutAtLastDot(db_client[w].filename) \o ProcessedSuffix

\* C16 amended: the processed filename is the original filename without its
\* last extension, followed by "_processed.mp4", where the last dot of the
\* final path segment starts an extension only when a character other than a
\* dot precedes it in that segment; a name with no such dot is kept whole.
C16_StripsLastExtension ==
    \A w \in Workers :
        processed_filename[w] # None =>
            processed_filename[w] =
                LastExtensionStripped(db_client[w].filename) \o ProcessedSuffix

\* C16, its case: a final segment that begins with a dot keeps the dot
C16_LeadingDotKept ==
    \E w \in Workers :
        /\ db_client[w].filename = <<".", "a">>
        /\ processed_filename[w] = <<".", "a">> \o ProcessedSuffix

\* C17: a result exists only after all six collaborator calls succeeded and
\* carries the success marker; a call that ends hands over either a result
\* or an error, never both and never a result with another status.
C17_ResultOnlyOnSuccess ==
    \A w \in Workers :
        /\ result[w] # NoResult =>
              /\ FirstOk(w, 6)
              /\ error[w] = NoError
              /\ result[w].status = Procesado
              /\ Row(w).present => Row(w).file_status = result[w].status
        /\ Finished(w) => (error[w] = NoError <=> result[w] # NoResult)

\* C17, its case: the caller has the result of a run that marked the row
C17_ResultHandedOver ==
    \E w \in Workers :
        /\ pc[w] = "idle"
        /\ result[w] # NoResult
        /\ result[w].status = Procesado
        /\ Row(w).present
        /\ RowBefore(w).file_status = None

\* the context each stage wraps its failures in
StageContext(stage) ==
    CASE stage = "notfound" -> NotFoundMsg
      [] stage = "validate" -> NoVideoMsg
      [] stage = "download" -> DownloadErrorPrefix
      [] stage = "compose"  -> ComposeErrorPrefix
      [] stage = "upload"   -> UploadErrorPrefix
      [] stage = "persist"  -> PersistErrorPrefix
      [] OTHER -> "<no context>"

\* C18: every error process raises is the process prefix around the context
\* of the stage that failed, so that the stage can be told from the error.
C18_EveryFailureNamesItsStage ==
    \A w \in Workers :
        Failed(w) =>
            /\ Len(error[w]) >= 2
            /\ error[w][1] = ProcessErrorPrefix
            /\ error[w][2] = StageContext(FailedStage(w))

\* C18, where it fails: the lookup query raised and its error reached the
\* caller under the process prefix alone
C18_LookupErrorLeaks ==
    \E w \in Workers :
        /\ Failed(w)
        /\ Did(w, "lookup", "raise")
        /\ error[w] = <<ProcessErrorPrefix, "db error">>

\* the stages a run reaches only with a row that has its source video
PastValidation == {"download", "compose", "upload", "persist"}

\* C19: a run for the id of a run that failed starts with no pending write,
\* finds the row still fit for processing when the failed run had found it
\* so, and returns a result and leaves the row marked whenever its own six
\* collaborator calls and the reload of the row succeed.
C19_FailedRunDoesNotBlockRerun ==
    \A w \in Workers :
        prior[w] # "none" =>
            /\ pc[w] = "lookup" => dirty[w] = NoDirty
            /\ (prior[w] \in PastValidation /\ RowBefore(w).present) =>
                  ~MissingVideo(RowBefore(w))
            /\ (Finished(w) /\ FirstOk(w, 6)) =>
                  (Returned(w) \/ FailedStage(w) = "reload")
            /\ Returned(w) =>
                  /\ result[w] # NoResult
                  /\ Row(w).present =>
                        /\ Row(w).file_status = Procesado
                        /\ Row(w).filename_url_processed = result[w].processed_url

\* C19, its case: the run after a failed persist returned and marked the row
C19_RerunAfterPersistFailure ==
    \E w \in Workers :
        /\ prior[w] = "persist"
        /\ Returned(w)
        /\ Row(w).present
        /\ Row(w).file_status = Procesado
        /\ RowBefore(w).file_status = None

\* the temporary paths the call of w holds in its variables
HeldPaths(w) ==
    {pvl_video[w], pvl_processed[w], temp_video_path[w], temp_processed_path[w]} \ {0}

\* C20: of two calls for different records running at the same time, each
\* holds and removes only temporary files it created itself, the files of
\* the two are different files, and the outcome and the row of each are
\* what its own collaborator calls and its own row make them: the result
\* and the four written fields on success, the wrapped error of its own
\* failing stage and an untouched row on failure.
C20_ConcurrentCallsIndependent ==
    \A w \in Workers :
        /\ InCall(w) => HeldPaths(w) \subseteq created[w]
        /\ removals[w] \subseteq created[w]
        /\ \A v \in Workers \ {w} :
              (InCall(w) /\ InCall(v)) => created[w] \cap created[v] = {}
        /\ Returned(w) =>
              /\ FirstOk(w, 6)
              /\ result[w] =
                    ProcessingResult(RecordOf(w), RowBefore(w).filename,
                        LastExtensionStripped(RowBefore(w).filename) \o ProcessedSuffix,
                        log[w][4].val)
              /\ Row(w) = [RowBefore(w) EXCEPT
                              !.filename_processed = result[w].processed_filename,
                              !.filename_url_processed = result[w].processed_url,
                              !.file_status = Procesado,
                              !.updated_at = Row(w).updated_at]
        /\ Failed(w) =>
              /\ error[w][1] = ProcessErrorPrefix
              /\ FailedStage(w) \notin {"lookup", "reload"} =>
                    error[w][2] = StageContext(FailedStage(w))
              /\ ~Did(w, "commit", "ok") => Row(w) = RowBefore(w)

\* C20, its case: both calls are past compose at the same time, each with
\* its own two files
C20_BothComposed ==
    /\ pc["w1"] = "upload"
    /\ pc["w2"] = "upload"
    /\ Cardinality(created["w1"] \cup created["w2"]) = 4
    /\ db[1].filename = db[2].filename

\* a value under scheduled_visit_client_id that is no number at all: null,
\* a list, an object, or a string without a digit
NonNumeric(v) ==
    \/ v.t \in {"null", "list", "dict"}
    \/ v.t = "str" /\ \A i \in DOMAIN v.s : v.s[i] \notin Digits

\* a request that is not a well-formed event: no JSON, no message, no data,
\* data that does not decode, no scheduled_visit_client_id, a non-numeric
\* one
Malformed(req) ==
    \/ req.shape \in {"not_json", "no_message", "no_data", "bad_data",
                      "event_no_id"}
    \/ req.shape = "event" /\ NonNumeric(req.id)

\* the controller has answered the request of w
Responded(w) == response[w] # NoResponse

\* C21: a step changes a row of the table only in one of two ways: the row
\* is removed (by another client of the database, never by process), or
\* the commit of the call working on that row writes filename_processed,
\* filename_url_processed, file_status and updated_at, all four in that one
\* step, and leaves id, visit_id, client_id, filename and filename_url (and
\* every other row) as they were
C21_WritesOnlyTheFourFields ==
    [][\A i \in Ids :
          db'[i] # db[i] =>
              \/ ~db'[i].present
              \/ \E w \in Workers :
                    /\ visit_client_id[w] = i
                    /\ pc[w] = "commit"
                    /\ pc'[w] = "result"
                    /\ \A j \in Ids \ {i} : db'[j] = db[j]
                    /\ db'[i] =
                         [db[i] EXCEPT
                            !.filename_processed = processed_filename[w],
                            !.filename_url_processed = processed_url[w],
                            !.file_status = Procesado,
                            !.updated_at = UtcNow]]_vars

\* C21, its case: a call has committed and the row differs from the row
\* the call started from in each of the four fields, while the other row is
\* still there
C21_FourFieldsWritten ==
    \E w \in Workers :
        /\ Did(w, "commit", "ok")
        /\ Row(w).present
        /\ Row(w).id = visit_client_id[w]
        /\ Row(w).filename_processed # RowBefore(w).filename_processed
        /\ Row(w).filename_url_processed # RowBefore(w).filename_url_processed
        /\ Row(w).file_status # RowBefore(w).file_status
        /\ Row(w).updated_at # RowBefore(w).updated_at
        /\ Row(w).filename = RowBefore(w).filename
        /\ \E j \in Ids \ {visit_client_id[w]} : db[j].present

\* C22: every argument the controller calls the service with is an integer
\* greater than zero (arguments are integers by construction of int())
C22_OnlyPositiveIdsReachService ==
    \A w \in Workers :
        \A i \in DOMAIN invocations[w] : invocations[w][i] > 0

\* C22, its case: the event carried -1, the controller called the service
\* with -1 and the service ran its lookup
C22_NegativeIdReachedService ==
    \E w \in Workers :
        /\ request[w] = Request("event", JInt(0 - 1))
        /\ invocations[w] = <<0 - 1>>
        /\ visit_client_id[w] = 0 - 1
        /\ Called(w, "lookup")

\* C23: a request that is not a well-formed event is answered 400 with
\* success false, and the service is not called for it
C23_MalformedRequestsGet400 ==
    \A w \in Workers :
        Malformed(request[w]) /\ Responded(w) =>
            /\ response[w].status = 400
            /\ ~response[w].success
            /\ invocations[w] = <<>>

\* C23, its case: the event carried a list under scheduled_visit_client_id
\* and the answer is 500
C23_ListIdAnswered500 ==
    \E w \in Workers :
        /\ request[w] = Request("event", JList(1))
        /\ response[w].status = 500
        /\ ~response[w].success
        /\ invocations[w] = <<>>

\* C24: for a request that passes the checks of the controller the service
\* is called once, with the converted id; no answer is given while the call
\* runs; the answer is 200 with success true and the result the service
\* returned, or 500 with success false and the message of the error it
\* raised
C24_OneCallAndItsOutcomeAnswered ==
    \A w \in Workers :
        Validated(request[w]).call =>
            /\ invocations[w] = <<Validated(request[w]).id>>
            /\ InCall(w) => ~Responded(w)
            /\ Responded(w) /\ error[w] = NoError =>
                /\ response[w] = [status |-> 200, success |-> TRUE,
                                  message |-> <<ProcessedMsg>>,
                                  data |-> result[w]]
                /\ result[w].status = Procesado
            /\ Responded(w) /\ error[w] # NoError =>
                response[w] = [status |-> 500, success |-> FALSE,
                               message |-> <<ControllerErrorPrefix>> \o error[w],
                               data |-> NoResult]

\* C24, its case: the service returned and the controller answered 200
\* with the result
C24_AnsweredWithResult ==
    \E w \in Workers :
        /\ Validated(request[w]).call
        /\ response[w].status = 200
        /\ response[w].data.processed_filename = processed_filename[w]
        /\ Did(w, "commit", "ok")

\* C25: a call of upload_file comes back with a triple and never with an
\* exception.  It reports failure exactly when no file or no filename was
\* given, the size is above MAX_CONTENT_LENGTH, or the bucket raised; then
\* the URL is None and the bucket is as it was before the call.  When it
\* reports success the blob is stored under target_folder/filename
C25_UploadFileNeverRaises ==
    upload_ret.called =>
        LET ret == upload_ret.ret
            path == FullPath(IF upload_ret.folder = NoFolder
                             THEN BUCKET_FOLDER ELSE upload_ret.folder,
                             upload_ret.filename)
            refused ==
                \/ ~upload_ret.file.given
                \/ upload_ret.file.filename \in {None, Empty}
                \/ upload_ret.file.size > MAX_CONTENT_LENGTH
        IN  /\ ~ret.raised
            /\ refused => ~ret.success
            /\ ~ret.success =>
                /\ ret.url = None
                /\ ret.message # <<>>
                /\ blobs = upload_ret.before
            /\ ret.success =>
                /\ path \in blobs
                /\ blobs = upload_ret.before \cup {path}
                /\ ret.url # None

\* C25, its case: the bucket raised a GoogleCloudError on a file within
\* the limit and the call came back with failure
C25_StorageErrorReturned ==
    /\ upload_ret.called
    /\ upload_ret.file.given
    /\ upload_ret.file.size = MAX_CONTENT_LENGTH
    /\ upload_ret.ret.message = <<"Error de Google Cloud Storage", "gcs error">>
    /\ ~upload_ret.ret.success

\* C26: at most one committed visit exists per (seller_id, date), and a
\* call that ended with ValueError committed nothing
C26_OneVisitPerSellerAndDate ==
    /\ \A v1, v2 \in scheduled_visits :
          v1.seller_id = v2.seller_id /\ v1.date = v2.date => v1 = v2
    /\ \A w \in Workers :
          creating[w].outcome = "ValueError" =>
              creating[w].visit \notin scheduled_visits

\* C26, its case: the two sessions each created a visit of the same seller
\* on the same date, and both visits are committed
C26_TwoVisitsOfOnePair ==
    /\ creating["w1"].outcome = "created"
    /\ creating["w2"].outcome = "created"
    /\ creating["w1"].visit.seller_id = creating["w2"].visit.seller_id
    /\ creating["w1"].visit.date = creating["w2"].visit.date
    /\ {creating["w1"].visit, creating["w2"].visit} \subseteq scheduled_visits
    /\ Cardinality(scheduled_visits) = 2

\* C27: a call whose commit succeeded ends by returning the result; a call
\* that ends by raising did not commit
C27_CommitImpliesReturn ==
    \A w \in Workers :
        Finished(w) /\ Did(w, "commit", "ok") => Returned(w)

\* C27, its case: the database failed on the reload of the expired row for
\* line 84, the row still being there; the call raised the reload's error
\* as a processing error, with all four fields committed and no result
C27_ReloadFailedAfterCommit ==
    \E w \in Workers :
        /\ Finished(w)
        /\ Did(w, "commit", "ok")
        /\ FailedStage(w) = "reload"
        /\ error[w] = <<ProcessErrorPrefix, "db error">>
        /\ result[w] = NoResult
        /\ Row(w).present
        /\ Row(w).filename_processed = processed_filename[w]
        /\ Row(w).filename_url_processed = processed_url[w]

\* C28: when two calls for the same record have both returned, the row
\* has the success marker, the one derived file name (the name both calls
\* derived) and the URL one of the two calls returned; the blob under that
\* name is there and holds the output of one of the two; the fields the
\* pipeline does not own are as they were
C28_SameRecordCallsConverge ==
    (Returned("w1") /\ Returned("w2")) =>
        LET name == GenerateProcessedFilename(db[1].filename)
            path == FullPath(BUCKET_FOLDER, name)
        IN  /\ db[1].present
            /\ db[1].file_status = Procesado
            /\ db[1].filename_processed = name
            /\ result["w1"].processed_filename = name
            /\ result["w2"].processed_filename = name
            /\ db[1].filename_url_processed \in
                  {result["w1"].processed_url, result["w2"].processed_url}
            /\ path \in blobs
            /\ uploaded_by[path] \in Workers
            /\ db[1].filename = pre["w1"][1].filename
            /\ db[1].filename_url = pre["w1"][1].filename_url
            /\ db[2] = pre["w1"][2]

\* C28, its case: both calls returned, with different URLs; the row holds
\* the URL of w1, which committed last, and the blob the output of w2,
\* which uploaded last
C28_BothReturnedInterleaved ==
    /\ Returned("w1")
    /\ Returned("w2")
    /\ visit_client_id["w1"] = visit_client_id["w2"]
    /\ result["w1"].processed_url # result["w2"].processed_url
    /\ db[1].filename_url_processed = result["w1"].processed_url
    /\ uploaded_by[FullPath(BUCKET_FOLDER, db[1].filename_processed)] = "w2"

\* C29: a blob a call has uploaded stays in the bucket, whatever happens
\* next in that call or in a later one: after a successful upload the blob
\* is there under the derived name, also when the persist step fails, and
\* then the row is as it was before the call; every row marked as processed
\* has its blob
C29_BlobOutlivesFailedPersist ==
    /\ \A w \in Workers :
          Did(w, "upload", "ok") =>
              /\ FullPath(BUCKET_FOLDER, processed_filename[w]) \in blobs
              /\ PersistFailed(w) =>
                    (Row(w).present =>
                        /\ Row(w).filename_processed = RowBefore(w).filename_processed
                        /\ Row(w).filename_url_processed =
                               RowBefore(w).filename_url_processed
                        /\ Row(w).file_status = RowBefore(w).file_status
                        /\ Row(w).updated_at = RowBefore(w).updated_at)
    /\ \A i \in Ids :
          db[i].present /\ db[i].file_status = Procesado =>
              FullPath(BUCKET_FOLDER, db[i].filename_processed) \in blobs

\* C29, its case: the upload succeeded, the commit raised and the call has
\* ended with the persist error; the blob is in the bucket and the row has
\* no processed file
C29_BlobLeftAfterFailedCommit ==
    \E w \in Workers :
        /\ Failed(w)
        /\ Did(w, "upload", "ok")
        /\ Did(w, "commit", "raise")
        /\ FullPath(BUCKET_FOLDER, processed_filename[w]) \in blobs
        /\ Row(w).present
        /\ Row(w).filename_processed = None

\* C30: the name a call derives differs from the file name of its record,
\* whatever that name is, so the blob the call uploads is never stored
\* under the path the source video has when both are in the same folder
C30_DerivedNameDiffersFromOriginal ==
    \A w \in Workers :
        processed_filename[w] # None =>
            /\ processed_filename[w] # db_client[w].filename
            /\ processed_filename[w] # Row(w).filename
            /\ Did(w, "upload", "ok") =>
                  /\ FullPath(BUCKET_FOLDER, processed_filename[w]) \in blobs
                  /\ FullPath(BUCKET_FOLDER, Row(w).filename) \notin blobs

\* C30, its case: the file name of the record already ends with
\* _processed.mp4 and the call has uploaded its output
C30_ProcessedLookingNameUploaded ==
    \E w \in Workers :
        /\ Did(w, "upload", "ok")
        /\ Row(w).filename = <<"a">> \o ProcessedSuffix
        /\ Cardinality(blobs) = 1

====
